---- MODULE Spec2Model ----
(***************************************************************************)
(* Model of the crawler core of the bestseller analyzer: the Playwright    *)
(* session held by EnhancedScraper (app/scrapers/enhanced_scraper.py), its *)
(* page acquisition get_page, the bounded lazy-load scroll, and the Shopee *)
(* login / verification flow (app/scrapers/enhanced_shopee_scraper.py),    *)
(* driven by a caller that issues the public calls in any order, as        *)
(* scripts/run_cli.py and scripts/test_enhanced_scraper.py do.             *)
(*                                                                         *)
(* The program is single threaded.  pc is the position of the one thread:  *)
(* "idle" is the caller between two calls, every other value is a point    *)
(* inside a call.  The outcome of each browser operation (success, raise,  *)
(* timeout, the URL the page ends on, the operator's answer) is an input   *)
(* chosen by the environment.                                              *)
(***************************************************************************)
EXTENDS Integers, Sequences, FiniteSets, TLC

\* ---------------------------------------------------------------- bounds
MaxCalls == 3       \* top-level calls the caller issues on one scraper
MaxTerms == 2       \* longest search_terms list handed to scrape_products
MaxHeight == 3      \* distinct document heights the page can report
MaxPolls == 6       \* URL polls counted in one verification loop

\* ------------------------------------------------------ program constants
MaxLoginAttempts == 3     \* _attempt_login: if self._login_attempts >= 3
MaxWait == 15             \* _login_to_shopee: max_wait = 15
PollStep == 3             \* _login_to_shopee: waited += 3
ScrollCap == 3            \* _scroll_page: if self._scroll_count >= 3

VARIABLES
    \* configuration, fixed at construction
    site,                   \* "ebay" (EnhancedEbayScraper) or "shopee"
    headless,               \* self.headless
    pause_on_verification,  \* self.pause_on_verification
    has_credentials,        \* shopee_email and shopee_password both set
    faults,                 \* what can go wrong in the browser layer in this
                            \* run: "none", "nav" (the navigation and its
                            \* waits can time out, all together) or "all"
    \* the session: each handle is "none" (None), "live" (refers to a
    \* running resource) or "closed" (refers to a released resource)
    playwright, browser, context, page,
    stealth,                \* the init script is registered on self.page
    url,                    \* self.page.url as the running call last saw it
    live,                   \* running resources of each kind, referenced or not
    \* Shopee login state
    is_logged_in, login_attempts, just_logged_in,
    \* control
    pc,                     \* position of the thread
    op,                     \* the top-level call in progress
    gpRet,                  \* where the running get_page returns to
    terms,                  \* search terms still to process
    waited,                 \* _login_to_shopee: waited
    gp,                     \* what the last get_page call did
    chk,                    \* result of the last _check_and_login_if_needed
    \* lazy-load scroll loop (_scroll_page)
    sc,
    \* observation of the run
    calls,                  \* top-level calls issued so far
    lastOp,                 \* the last call that returned: "close" or "call"
    raised,                 \* that call raised to the caller
    closeOps,               \* release operations of the last close(), in order
    setupStarts,            \* start() calls made by this step's _setup_browser
    setupKind,              \* how its start of the driver went ("none": no
                            \* _setup_browser ran, or the browser was there)
    fatal,                  \* the running call hit the fatal start failure
    submissions,            \* _login_to_shopee calls so far
    polls,                  \* URL polls of the running verification loop,
                            \* counted modulo MaxPolls + 1
    marks,                  \* events seen while the running call ran
    \* extraction (scrape_products seen from its result list)
    results,                \* results, the list scrape_products builds
    terms_log,              \* what the call did for each term it processed
    delivered,              \* what the caller holds once the call has ended
    \* cookie snapshot
    cookies_file,           \* self.cookies_file
    cookie_file,            \* the entries of the file at that path
    loaded,                 \* the list handed to context.add_cookies
    saved_to,               \* the path the last save_cookies() wrote
    \* request monitoring
    enable_request_monitoring,
    request_logs,           \* self.request_logs
    response_logs,          \* self.response_logs
    log_file,               \* the content of the request log file
    \* sessions run side by side as separate processes
    workers                 \* what each of them is doing

vars == << site, headless, pause_on_verification, has_credentials, faults,
           playwright, browser, context, page, stealth, url, live,
           is_logged_in, login_attempts, just_logged_in,
           pc, op, gpRet, terms, waited, gp, chk, sc,
           calls, lastOp, raised, closeOps,
           setupStarts, setupKind, fatal, submissions, polls, marks,
           results, terms_log, delivered,
           cookies_file, cookie_file, loaded, saved_to,
           enable_request_monitoring, request_logs, response_logs,
           log_file, workers >>

config == << site, headless, pause_on_verification, has_credentials,
            faults >>
session == << playwright, browser, context, page, stealth, live >>
login == << is_logged_in, login_attempts, just_logged_in >>
\* what a call keeps while it runs and drops when it returns
locals == << gpRet, terms, waited, polls, chk, fatal, marks, gp >>
\* what is known about the last close()
closeLog == << closeOps >>
\* the result list of scrape_products and what became of it
extraction == << results, terms_log, delivered >>
\* the cookie snapshot and the session's use of it
cookies == << cookies_file, cookie_file, loaded, saved_to >>
\* the request monitor
monitor == << enable_request_monitoring, request_logs, response_logs,
             log_file >>
\* where the running call stands, and the counters of the calls made
control == << pc, op, sc, url, login, locals, calls, lastOp, raised,
             closeLog, setupStarts, setupKind, submissions >>
\* everything the session and login steps leave alone
data == << extraction, cookies, monitor, workers >>

\* ------------------------------------------------------------------ URLs
\* A URL is represented by the substrings the code tests for.
\*   "other"          none of them
\*   "login"          contains '/buyer/login'
\*   "verify"         contains '/verify'
\*   "login_verify"   contains both
\*   "captcha"        contains 'captcha' or 'robot', no '/verify'
\*   "traffic_error"  contains 'traffic/error', no '/verify'
URLs == {"other", "login", "verify", "login_verify", "captcha", "traffic_error"}

HasLogin(u) == u \in {"login", "login_verify"}
HasVerify(u) == u \in {"verify", "login_verify"}
HasTrafficError(u) == u = "traffic_error"

\* A test of the final URL for 'verify' alone.
IsVerificationUrlVerifyOnly(u) == u \in {"verify", "login_verify"}

\* get_page: any(keyword in current_url_lower for keyword in
\* ['captcha', 'robot', 'verify'])
IsVerificationUrl(u) == u \in {"verify", "login_verify", "captcha"}

Kinds == {"playwright", "browser", "context", "page"}

\* ------------------------------------------------------- _setup_browser
\* The outcome of one _setup_browser call: how sync_playwright().start()
\* went, and which later step raised.
\*   start = "ok"          the first start succeeds
\*           "retry_ok"    the first start raises an event-loop error, the
\*                         remediation is applied, the second start succeeds
\*           "retry_fail"  the second start raises too: RuntimeError
\*           "remedy_fail" the first start raises an event-loop error and
\*                         the remediation raises (nest_asyncio cannot be
\*                         imported or applied): RuntimeError, no retry
\*           "other_fail"  the first start raises another error: re-raised
SetupSteps == {"none", "launch", "new_context", "new_page",
               "set_extra_http_headers", "add_init_script"}
SetupOutcomes ==
    { o \in [start : {"ok", "retry_ok", "retry_fail", "remedy_fail",
                      "other_fail"},
             failAt : SetupSteps] :
        o.start \in {"retry_fail", "remedy_fail", "other_fail"}
        => o.failAt = "none" }

DefaultOutcome == [start |-> "ok", failAt |-> "none"]

\* What the environment can do in this run.
FaultLevels == {"none", "nav", "all"}
SetupChoices == IF faults = "all" THEN SetupOutcomes ELSE {DefaultOutcome}
FailChoices == IF faults = "all" THEN BOOLEAN ELSE {FALSE}

\* A start that is tried again after any failure.
StartsOfRetryAlways(o) == IF o.start = "ok" THEN 1 ELSE 2

StartsOf(o) ==
    IF o.start \in {"ok", "other_fail", "remedy_fail"} THEN 1 ELSE 2

\* The session as it is, in the shape SetupBrowser returns.
CurSession ==
    [playwright |-> playwright, browser |-> browser,
     context |-> context, page |-> page, stealth |-> stealth,
     url |-> url, live |-> live,
     starts |-> 0, kind |-> "none", raised |-> FALSE, fatal |-> FALSE]

\* The fields after _setup_browser ran with outcome o, with the number of
\* start() calls it made, whether it raised and whether the failure is the
\* fatal one (start failed after the remediation).
SetupBrowser(o) ==
    LET cur == CurSession
    IN  IF browser # "none" THEN cur        \* if self.browser is None:
        ELSE
        LET s0 == [cur EXCEPT !.starts = StartsOf(o), !.kind = o.start] IN
        IF o.start = "other_fail" THEN [s0 EXCEPT !.raised = TRUE]
        ELSE IF o.start \in {"remedy_fail", "retry_fail"}
             THEN [s0 EXCEPT !.raised = TRUE, !.fatal = TRUE]
        ELSE
        \* self.playwright = sync_playwright().start()
        LET s1 == [s0 EXCEPT !.playwright = "live",
                             !.live["playwright"] = @ + 1] IN
        IF o.failAt = "launch" THEN [s1 EXCEPT !.raised = TRUE]
        ELSE
        \* self.browser = self.playwright.chromium.launch(...)
        LET s2 == [s1 EXCEPT !.browser = "live",
                             !.live["browser"] = @ + 1] IN
        IF o.failAt = "new_context" THEN [s2 EXCEPT !.raised = TRUE]
        ELSE
        \* self.context = self.browser.new_context(...)
        LET s3 == [s2 EXCEPT !.context = "live",
                             !.live["context"] = @ + 1] IN
        IF o.failAt = "new_page" THEN [s3 EXCEPT !.raised = TRUE]
        ELSE
        \* self.page = self.context.new_page()
        LET s4 == [s3 EXCEPT !.page = "live", !.live["page"] = @ + 1,
                             !.stealth = FALSE, !.url = "other"] IN
        IF o.failAt \in {"set_extra_http_headers", "add_init_script"}
        THEN [s4 EXCEPT !.raised = TRUE]
        \* self._inject_stealth_scripts()
        ELSE [s4 EXCEPT !.stealth = TRUE]

\* ---------------------------------------------------------------- close
\* The release steps of close(), in the order of the code.
CloseOrder == << "page", "context", "browser", "playwright" >>

HandleOf(k) ==
    CASE k = "page" -> page
      [] k = "context" -> context
      [] k = "browser" -> browser
      [] k = "playwright" -> playwright

\* The release operations close() invokes when the step on failKind raises
\* (failKind = "none": no step raises): every handle that is not None, in
\* order, up to and including the raising one.
RECURSIVE CloseCalls(_, _)
CloseCalls(i, failKind) ==
    IF i > Len(CloseOrder) THEN << >>
    ELSE LET k == CloseOrder[i] IN
         IF HandleOf(k) = "none" THEN CloseCalls(i + 1, failKind)
         ELSE IF k = failKind THEN << k >>
         ELSE << k >> \o CloseCalls(i + 1, failKind)

InSeq(x, s) == \E i \in 1..Len(s) : s[i] = x

\* A close() that forgets the browser and the driver whatever happened, and
\* the page and the context only when no release step raised.
CloseResultDropsBrowser(failKind, released) ==
    LET ops == CloseCalls(1, failKind)
        failed == InSeq(failKind, ops)
        done(k) == InSeq(k, ops) /\ (k # failKind \/ released)
        h(k) == IF ~failed \/ k \in {"browser", "playwright"} THEN "none"
                ELSE IF done(k) THEN "closed"
                ELSE HandleOf(k)
    IN  [ops |-> ops, failed |-> failed,
         playwright |-> h("playwright"), browser |-> h("browser"),
         context |-> h("context"), page |-> h("page"),
         live |-> [k \in Kinds |->
                     IF done(k) /\ HandleOf(k) = "live"
                     THEN live[k] - 1 ELSE live[k]]]

\* close() with the raising step failKind; released tells whether the
\* raising operation released its resource before it raised.
CloseResult(failKind, released) ==
    LET ops == CloseCalls(1, failKind)
        failed == InSeq(failKind, ops)
        done(k) == InSeq(k, ops) /\ (k # failKind \/ released)
        h(k) == IF ~failed THEN "none"          \* self.page = None ...
                ELSE IF done(k) THEN "closed"
                ELSE HandleOf(k)
    IN  [ops |-> ops, failed |-> failed,
         playwright |-> h("playwright"), browser |-> h("browser"),
         context |-> h("context"), page |-> h("page"),
         live |-> [k \in Kinds |->
                     IF done(k) /\ HandleOf(k) = "live"
                     THEN live[k] - 1 ELSE live[k]]]

\* --------------------------------------------------------------- initial
\* What a get_page call did: the navigation steps that raised or timed out,
\* what page.content() gave, how the verification check went, whether a step
\* other than the navigation steps raised, and what the call returns.
NoGp == [errs |-> {}, content |-> "notcaptured", verif |-> "no",
         exc |-> FALSE, result |-> "none"]
NoSc == [pc |-> "off", count |-> 0, last |-> 0, iters |-> 0]

\* The scraper as its constructor leaves it.  Of the configurations, those
\* are explored that differ in what the code tests: the eBay scraper has
\* neither credentials nor the pause flag, headless is read only with the
\* pause flag set, and the pause flag is explored with credentials.
\* The fields the constructors set, whatever the arguments.
\* data/request_logs.json has not been written.
NoLogFile == [written |-> FALSE, requests |-> 0, responses |-> 0]

\* The processes that each run main for one site, and a process that has
\* not called scrape_products yet.  A process is at pc, is writing the file
\* 'writing' (opened with mode 'w', not closed yet), and has opened each of
\* the two files so many times.
MaxWorkers == 2
Workers == 1..MaxWorkers
NotStarted ==
    [pc |-> "start", site |-> "none", logged_in |-> FALSE,
     writing |-> "none", cookie_writes |-> 0, log_writes |-> 0]

\* No scrape_products call has handed a list to its caller.
NotDelivered == [done |-> FALSE, list |-> << >>]

Constructed ==
    /\ playwright = "none" /\ browser = "none"
    /\ context = "none" /\ page = "none"
    /\ stealth = FALSE
    /\ url = "other"
    /\ live = [k \in Kinds |-> 0]
    /\ is_logged_in = FALSE /\ login_attempts = 0 /\ just_logged_in = FALSE
    /\ pc = "idle" /\ op = "none" /\ gpRet = "caller"
    /\ terms = 0 /\ waited = 0
    /\ gp = NoGp /\ chk = TRUE
    /\ sc = NoSc
    /\ calls = 0 /\ lastOp = "none" /\ raised = FALSE
    /\ closeOps = << >>
    /\ setupStarts = 0 /\ setupKind = "none" /\ fatal = FALSE
    /\ submissions = 0 /\ polls = 0 /\ marks = {}
    /\ results = << >> /\ terms_log = << >> /\ delivered = NotDelivered
    /\ loaded = << >> /\ saved_to = "none"
    /\ request_logs = 0 /\ response_logs = 0 /\ log_file = NoLogFile
    /\ workers = [w \in Workers |-> NotStarted]

\* The constructor defaults: no cookie file, request monitoring on.
Defaults ==
    /\ cookies_file = "none"
    /\ cookie_file = [exists |-> FALSE, entries |-> << >>]
    /\ enable_request_monitoring = TRUE

Init ==
    /\ site \in {"ebay", "shopee"}
    /\ headless \in BOOLEAN
    /\ pause_on_verification \in BOOLEAN
    /\ has_credentials \in BOOLEAN
    /\ faults \in FaultLevels
    /\ site = "ebay" => ~pause_on_verification /\ ~has_credentials
    /\ ~pause_on_verification => headless
    /\ ~has_credentials => ~pause_on_verification
    /\ Constructed
    /\ Defaults

\* The thread is in the caller's code, between two calls on the scraper.
AtCaller == pc = "idle" /\ sc.pc # "loop"

\* A top-level call returns to the caller (exc: it raises); what the call
\* kept while it ran is dropped.
Return(name, exc) ==
    /\ pc' = "idle"
    /\ op' = "none"
    /\ lastOp' = name
    /\ raised' = exc
    /\ gpRet' = "caller" /\ terms' = 0 /\ waited' = 0 /\ polls' = 0
    /\ chk' = TRUE /\ fatal' = FALSE /\ marks' = {} /\ gp' = NoGp
    /\ url' = "other"

\* The step runs no _setup_browser.
NoSetup == setupStarts' = 0 /\ setupKind' = "none"

\* The session fields take the values of the record s.
SetSession(s) ==
    /\ playwright' = s.playwright /\ browser' = s.browser
    /\ context' = s.context /\ page' = s.page
    /\ stealth' = s.stealth /\ live' = s.live
    /\ setupStarts' = s.starts /\ setupKind' = s.kind

\* ------------------------------------------------- manual verification
\* _prompt_manual_verification reaches input() only with the pause flag on
\* and a visible browser; otherwise it returns False at once.
\* A prompt that does not ask whether the browser is visible.
PromptBlocksHeadlessToo == pause_on_verification

PromptBlocks == pause_on_verification /\ ~headless

\* The operator's answer to input(): Enter, 'skip', or end of input.
Answers == {"enter", "skip", "eof"}

\* _handle_verification_page reporting the page as handled when the pause
\* flag is off.
HandleVerificationPageLenient ==
    IF site = "ebay" THEN "false"
    ELSE IF ~pause_on_verification THEN "true"
    ELSE IF PromptBlocks THEN "prompt"
    ELSE "false"

\* _handle_verification_page, up to the point where it returns or blocks:
\* the base class (eBay) returns False; Shopee returns False unless the
\* pause flag is set, and then asks the operator.
HandleVerificationPage ==
    IF site = "ebay" THEN "false"
    ELSE IF ~pause_on_verification THEN "false"
    ELSE IF PromptBlocks THEN "prompt"
    ELSE "false"

\* -------------------------------------------------------------- get_page
NavSteps == {"goto", "wait_for_selector", "domcontentloaded", "networkidle"}
Contents == {"raise", "short", "ok"}    \* page.content(): raises, < 100, >= 100

\* scrape_products and scrape_categories of eBay pass wait_selector; Shopee
\* and the direct call of the test script pass None.
HasWaitSelector == site = "ebay" /\ gpRet # "caller"

\* get_page with page.goto outside any try/except of its own.
SwallowedStepsNoGoto == {"wait_for_selector", "domcontentloaded",
                         "networkidle"}

\* The navigation steps wrapped in a try/except of their own, which logs the
\* error and goes on: page.goto, wait_for_selector and the two
\* wait_for_load_state calls.  An error of any other step reaches the outer
\* except of get_page, which returns None.
SwallowedSteps == {"goto", "wait_for_selector", "domcontentloaded",
                   "networkidle"}

\* get_page from its first line to its return, or to the operator prompt.
\*   o        outcome of _setup_browser, if it runs
\*   hdrFail  self.context.set_extra_http_headers raises
\*   errs     the navigation steps that raise or time out
\*   u        the URL the page is on after the navigation
\*   c        what page.content() gives
GetPageBody(o, hdrFail, errs, u, c) ==
    LET s == IF page = "none" THEN SetupBrowser(o) ELSE CurSession
        failed(g) == [s |-> s, gp |-> [g EXCEPT !.result = "none"]]
    IN  IF s.raised                       \* outer except: return None
        THEN failed([NoGp EXCEPT !.exc = TRUE])
        ELSE IF s.context # "live" \/ hdrFail
        THEN failed([NoGp EXCEPT !.exc = TRUE])
        ELSE
        LET usable == s.page = "live"
            e == IF usable THEN errs
                 ELSE IF HasWaitSelector THEN NavSteps
                 ELSE NavSteps \ {"wait_for_selector"}
            cc == IF usable THEN c ELSE "raise"
            \* current_url = self.page.url, read once the content is in
            s1 == IF cc = "ok" THEN [s EXCEPT !.url = u] ELSE s
            g == [NoGp EXCEPT !.errs = e]
            h == HandleVerificationPage
        IN  IF e \ SwallowedSteps # {} THEN failed(g)
            ELSE IF cc = "raise"
            THEN [s |-> s1, gp |-> [g EXCEPT !.content = "raise",
                                             !.exc = TRUE]]
            ELSE IF cc = "short"
            THEN [s |-> s1, gp |-> [g EXCEPT !.content = "short"]]
            ELSE IF IsVerificationUrl(s1.url)
            THEN [s |-> s1,
                  gp |-> [g EXCEPT !.content = "ok",
                            !.verif = CASE h = "prompt" -> "pending"
                                        [] h = "true" -> "handled"
                                        [] OTHER -> "unhandled",
                            !.result = CASE h = "prompt" -> "pending"
                                         [] h = "true" -> "soup"
                                         [] OTHER -> "none"]]
            ELSE [s |-> s1, gp |-> [g EXCEPT !.content = "ok",
                                             !.result = "soup"]]

\* _setup_browser runs in this call and self.page.add_init_script, the one
\* statement of _inject_stealth_scripts after its script text, raises.
StealthFailed(o) ==
    page = "none" /\ browser = "none" /\ o.failAt = "add_init_script"

\* Where get_page returns to.
RetPc ==
    CASE gpRet = "caller" -> "gp_ret"
      [] gpRet = "sp_first" -> "sp_got"
      [] gpRet = "sp_refetch" -> "sp_regot"
      [] gpRet = "cat" -> "cat_got"

NavChoices ==
    CASE faults = "all" -> SUBSET NavSteps
      [] faults = "nav" -> {{}, NavSteps \ {"wait_for_selector"}, NavSteps}
      [] OTHER -> {{}}
ContentChoices == IF faults = "all" THEN Contents ELSE {"short", "ok"}

\* The wait for wait_selector runs only when the caller passes one.
NavErrChoices ==
    { e \in NavChoices : "wait_for_selector" \in e => HasWaitSelector }

GetPageRun ==
    /\ pc = "gp_run"
    /\ \E o \in (IF page = "none" /\ browser = "none" THEN SetupChoices
                 ELSE {DefaultOutcome}) :
         LET s == IF page = "none" THEN SetupBrowser(o) ELSE CurSession IN
         \E hdrFail \in (IF s.raised \/ s.context # "live" THEN {FALSE}
                         ELSE FailChoices) :
         LET nav == ~s.raised /\ s.context = "live" /\ ~hdrFail
                    /\ s.page = "live" IN
         \E errs \in (IF nav THEN NavErrChoices ELSE {{}}),
            c \in (IF nav THEN ContentChoices ELSE {"ok"}) :
         \E u \in (IF nav /\ c = "ok" THEN URLs ELSE {url}) :
         LET r == GetPageBody(o, hdrFail, errs, u, c) IN
         /\ SetSession(r.s)
         /\ url' = r.s.url
         /\ fatal' = (fatal \/ r.s.fatal)
         /\ gp' = r.gp
         /\ marks' = (IF site = "shopee" /\ ~pause_on_verification
                          /\ r.gp.content = "ok" /\ HasVerify(r.s.url)
                       THEN marks \cup {"verify_wall"} ELSE marks)
                      \cup (IF StealthFailed(o) THEN {"stealth_failed"}
                            ELSE {})
         /\ pc' = IF r.gp.result = "pending" THEN "gp_prompt" ELSE RetPc
    /\ UNCHANGED << data, config, login, op, gpRet, terms, waited, polls, chk, sc,
                    calls, lastOp, raised, closeLog, submissions >>

\* The operator answers the prompt of _handle_verification_page; after a
\* confirmation the two load-state waits run and the content is read again.
GetPagePrompt ==
    /\ pc = "gp_prompt"
    /\ \E a \in Answers, waitFail \in BOOLEAN, u \in URLs,
          c \in ContentChoices :
         /\ a # "enter" => ~waitFail
         /\ a # "enter" \/ waitFail => u = url /\ c = "ok"
         /\ url' = u
         /\ gp' = IF a = "enter" /\ ~waitFail
                  THEN [gp EXCEPT !.verif = "handled",
                                  !.content = c,
                                  !.exc = (c = "raise"),
                                  !.result = IF c = "ok" THEN "soup"
                                             ELSE "none"]
                  ELSE [gp EXCEPT !.verif = "unhandled", !.result = "none"]
    /\ pc' = RetPc
    /\ NoSetup
    /\ UNCHANGED << data, config, playwright, browser, context, page, stealth,
                    live, login, op, gpRet, terms, waited, polls, chk, fatal,
                    marks, sc, calls, lastOp, raised, closeLog, submissions >>

\* get_page, called directly, hands its result to the caller.
GetPageReturn ==
    /\ pc = "gp_ret"
    /\ Return("call", FALSE)
    /\ NoSetup
    /\ UNCHANGED << data, config, playwright, browser, context, page, stealth,
                    live, login, sc, calls, closeLog, submissions >>

\* ------------------------------------------------------ scrape_products
\* what the steps inside a call leave alone
frame == << op, lastOp, raised, gpRet, terms, fatal, marks >>

\* The current search term is done (continue, or the end of the loop body);
\* after the last term the finally clause runs and the call returns.
EndTerm ==
    IF terms - 1 = 0
    THEN Return("call", FALSE)
    ELSE /\ pc' = "gp_run"
         /\ terms' = terms - 1
         /\ gpRet' = "sp_first"
         /\ gp' = NoGp
         /\ UNCHANGED << op, lastOp, raised, waited, polls, chk, fatal,
                         marks, url >>

\* scrape_products(search_terms) with n terms.  Shopee first makes sure the
\* browser is set up (an exception of _setup_browser leaves through the
\* finally clause) and visits the home page when not logged in; eBay goes
\* straight to the loop.
ScrapeProducts ==
    /\ AtCaller /\ calls < MaxCalls
    /\ \E n \in 1..MaxTerms, o \in SetupChoices, u \in URLs :
         LET s == IF site = "shopee" /\ page = "none"
                  THEN SetupBrowser(o) ELSE CurSession
             visit == site = "shopee" /\ ~s.raised /\ ~is_logged_in
                      /\ s.page = "live"
         IN
         /\ ~(site = "shopee" /\ page = "none" /\ browser = "none")
               => o = DefaultOutcome
         /\ ~visit => u = url
         /\ SetSession(s)
         /\ IF s.raised
            THEN /\ Return("call", TRUE)
                 /\ n = 1
            ELSE /\ pc' = "gp_run"
                 /\ op' = "scrape_products"
                 /\ terms' = n
                 /\ gpRet' = "sp_first"
                 /\ url' = IF visit THEN u ELSE s.url
                 /\ UNCHANGED << lastOp, raised, waited, polls, chk, fatal,
                                 marks, gp >>
    /\ calls' = calls + 1
    /\ closeOps' = << >>
    /\ UNCHANGED << data, config, login, sc, submissions >>

\* _check_and_login_if_needed(soup), up to its return, to the operator
\* prompt or to _attempt_login.  soupLogin: the document shows a login
\* title, a login form or a login keyword.
CheckAndLogin(soupLogin) ==
    IF is_logged_in THEN "true"
    ELSE IF page = "live" /\ HasLogin(url) THEN "attempt"
    ELSE IF page = "live" /\ (HasVerify(url) \/ HasTrafficError(url))
         THEN IF PromptBlocks THEN "prompt" ELSE "attempt"
    ELSE IF soupLogin THEN "attempt"
    ELSE "true"

\* The first get_page of a term has returned.
SPGot ==
    /\ pc = "sp_got"
    /\ IF gp.result = "none" \/ site = "ebay"
       THEN \* if not soup: continue;  eBay: extract the cards
            EndTerm
       ELSE \E soupLogin \in BOOLEAN :
            LET r == CheckAndLogin(soupLogin) IN
            /\ pc' = CASE r = "true" -> "sp_checked"
                       [] r = "prompt" -> "chk_prompt"
                       [] r = "attempt" -> "attempt"
            /\ chk' = TRUE
            /\ gp' = NoGp
            /\ UNCHANGED << frame, waited, polls, url >>
    /\ NoSetup
    /\ UNCHANGED << data, config, playwright, browser, context, page, stealth,
                    live, login, sc, calls, closeLog, submissions >>

\* The operator answers the prompt of _check_and_login_if_needed: after a
\* confirmation the page is reloaded and the check returns True; when the
\* reload raises, or the operator declines, _attempt_login runs.
CheckPrompt ==
    /\ pc = "chk_prompt"
    /\ \E a \in Answers, reloadFail \in BOOLEAN, u \in URLs :
         /\ a # "enter" => ~reloadFail
         /\ a # "enter" \/ reloadFail => u = url
         /\ url' = u
         /\ pc' = IF a = "enter" /\ ~reloadFail THEN "sp_checked"
                  ELSE "attempt"
    /\ NoSetup
    /\ UNCHANGED << data, config, playwright, browser, context, page, stealth,
                    live, login, frame, waited, polls, chk, gp, sc, calls,
                    closeLog, submissions >>

\* _attempt_login with the test of the attempts off by one (> 3).
AttemptRefusedOffByOne(attempts) ==
    ~has_credentials \/ attempts > MaxLoginAttempts

\* _attempt_login refuses: no credentials, or the attempts are used up.
AttemptRefused(attempts) == ~has_credentials \/ attempts >= MaxLoginAttempts

\* A URL test that asks about the verification pages only.
LeftVerifyOnly(u) == ~HasVerify(u)

\* The URL test after the credentials were submitted (and at each poll):
\* logged in when the URL left the login and the verification pages.
LeftLoginAndVerify(u) == ~HasLogin(u) /\ ~HasVerify(u)

\* The URL test after the operator confirmed, past the poll timeout.
LeftAfterConfirm(u) == ~HasVerify(u)

\* _login_to_shopee returned: _attempt_login sets _just_logged_in and
\* returns the result to _check_and_login_if_needed, which returns it.
LoginReturns(ok) ==
    /\ is_logged_in' = (is_logged_in \/ ok)
    /\ just_logged_in' = ok
    /\ chk' = ok
    /\ pc' = "sp_checked"

\* _attempt_login, and _login_to_shopee up to the URL test that follows the
\* submission.  submitted: the form was found, filled and sent without an
\* exception; u: the URL the page is on afterwards.
AttemptLogin ==
    /\ pc = "attempt"
    /\ IF AttemptRefused(login_attempts)
       THEN /\ chk' = FALSE
            /\ pc' = "sp_checked"
            /\ marks' = marks \cup {"refused"}
            /\ UNCHANGED << login, url, submissions, waited, polls >>
       ELSE \E submitted \in BOOLEAN, u \in URLs :
            /\ marks' = marks
            /\ page # "live" => ~submitted
            /\ ~submitted => u = url
            /\ login_attempts' = login_attempts + 1
            /\ submissions' = submissions + 1
            /\ url' = u
            /\ waited' = 0 /\ polls' = 0
            /\ IF ~submitted THEN LoginReturns(FALSE)
               ELSE IF LeftLoginAndVerify(u) THEN LoginReturns(TRUE)
               ELSE IF HasVerify(u)
               THEN /\ pc' = IF PromptBlocks THEN "login_prompt1"
                             ELSE "login_poll"
                    /\ just_logged_in' = FALSE
                    /\ UNCHANGED << is_logged_in, chk >>
               ELSE LoginReturns(FALSE)
    /\ NoSetup
    /\ UNCHANGED << data, config, playwright, browser, context, page, stealth,
                    live, op, lastOp, raised, gpRet, terms, fatal, gp, sc,
                    calls, closeLog >>

\* The operator answers the first prompt of _login_to_shopee; the poll loop
\* follows whatever the answer.
LoginPrompt1 ==
    /\ pc = "login_prompt1"
    /\ \E a \in Answers, waitFail \in BOOLEAN, u \in URLs :
         /\ a # "enter" => ~waitFail
         /\ a # "enter" \/ waitFail => u = url
         /\ url' = u
    /\ pc' = "login_poll"
    /\ NoSetup
    /\ UNCHANGED << data, config, playwright, browser, context, page, stealth,
                    live, login, frame, waited, polls, chk, gp, sc, calls,
                    closeLog, submissions >>

\* The poll loop without the increment of waited.
WaitedForgotten(w) == w

\* waited += 3
Waited(w) == w + PollStep

\* One iteration of the verification poll loop: wait, count 3 seconds, read
\* the URL.  When the loop runs out the operator is asked once more, if the
\* prompt is enabled, and the login fails otherwise.
Poll ==
    /\ pc = "login_poll"
    /\ waited < MaxWait
    /\ \E u \in URLs :
         /\ url' = u
         /\ waited' = Waited(waited)
         /\ polls' = (polls + 1) % (MaxPolls + 1)
         /\ IF LeftLoginAndVerify(u) THEN LoginReturns(TRUE)
            ELSE IF HasLogin(u) THEN LoginReturns(FALSE)
            ELSE IF Waited(waited) < MaxWait
            THEN UNCHANGED << pc, is_logged_in, just_logged_in, chk >>
            ELSE IF PromptBlocks
            THEN /\ pc' = "login_prompt2"
                 /\ UNCHANGED << is_logged_in, just_logged_in, chk >>
            ELSE LoginReturns(FALSE)
    /\ NoSetup
    /\ UNCHANGED << data, config, playwright, browser, context, page, stealth,
                    live, login_attempts, frame, gp, sc, calls, closeLog,
                    submissions >>

\* The operator answers the prompt that follows the poll timeout.
LoginPrompt2 ==
    /\ pc = "login_prompt2"
    /\ \E a \in Answers, waitFail \in BOOLEAN, u \in URLs :
         /\ a # "enter" => ~waitFail
         /\ a # "enter" \/ waitFail => u = url
         /\ url' = u
         /\ LoginReturns(a = "enter" /\ LeftAfterConfirm(u))
    /\ NoSetup
    /\ UNCHANGED << data, config, playwright, browser, context, page, stealth,
                    live, login_attempts, frame, waited, polls, gp, sc,
                    calls, closeLog, submissions >>

\* After the check: a failed check abandons the term; after a login, or when
\* logged in and still on a login or verification URL, the home page and the
\* search page are fetched again; otherwise the cards are extracted.
SPChecked ==
    /\ pc = "sp_checked"
    /\ IF chk /\ (just_logged_in \/ is_logged_in)
             /\ (HasLogin(url) \/ HasVerify(url) \/ just_logged_in)
       THEN /\ \E u \in URLs : url' = u     \* self.page.goto(self.BASE_URL)
            /\ pc' = "gp_run"
            /\ gpRet' = "sp_refetch"
            /\ UNCHANGED << op, lastOp, raised, terms, fatal, marks, waited,
                            polls, chk, gp >>
       ELSE EndTerm
    /\ NoSetup
    /\ UNCHANGED << data, config, playwright, browser, context, page, stealth,
                    live, login, sc, calls, closeLog, submissions >>

\* The second get_page of a term has returned.
SPRegot ==
    /\ pc = "sp_regot"
    /\ just_logged_in' = FALSE
    /\ EndTerm
    /\ NoSetup
    /\ UNCHANGED << data, config, playwright, browser, context, page, stealth,
                    live, is_logged_in, login_attempts, sc, calls, closeLog,
                    submissions >>

\* ---------------------------------------------------- scrape_categories
ScrapeCategories ==
    /\ AtCaller /\ calls < MaxCalls
    /\ pc' = "gp_run"
    /\ op' = "scrape_categories"
    /\ gpRet' = "cat"
    /\ calls' = calls + 1
    /\ NoSetup
    /\ closeOps' = << >>
    /\ UNCHANGED << data, config, playwright, browser, context, page, stealth,
                    live, url, login, lastOp, raised, terms, fatal, marks,
                    waited, polls, chk, gp, sc, submissions >>

\* get_page has returned to scrape_categories: the links are extracted, the
\* finally clause saves the cookies.
CatGot ==
    /\ pc = "cat_got"
    /\ Return("call", FALSE)
    /\ NoSetup
    /\ UNCHANGED << data, config, playwright, browser, context, page, stealth,
                    live, login, sc, calls, closeLog, submissions >>

\* ------------------------------------------------- get_page, called directly
GetPage ==
    /\ AtCaller /\ calls < MaxCalls
    /\ pc' = "gp_run"
    /\ op' = "get_page"
    /\ gpRet' = "caller"
    /\ calls' = calls + 1
    /\ NoSetup
    /\ closeOps' = << >>
    /\ UNCHANGED << data, config, playwright, browser, context, page, stealth,
                    live, url, login, lastOp, raised, terms, fatal, marks,
                    waited, polls, chk, gp, sc, submissions >>

\* ------------------------------------------------------------ __enter__
Enter ==
    /\ AtCaller /\ calls < MaxCalls
    /\ \E o \in SetupChoices :
         LET s == SetupBrowser(o) IN
         /\ browser # "none" => o = DefaultOutcome
         /\ SetSession(s)
         /\ Return("call", s.raised)
    /\ calls' = calls + 1
    /\ closeOps' = << >>
    /\ UNCHANGED << data, config, login, sc, submissions >>

\* ---------------------------------------------------------------- close
Close ==
    /\ AtCaller /\ calls < MaxCalls
    /\ \E failKind \in (IF faults = "all" THEN Kinds ELSE {}) \cup {"none"},
          released \in BOOLEAN :
         LET r == CloseResult(failKind, released) IN
         /\ failKind # "none" => r.failed
         /\ ~r.failed => ~released
         /\ playwright' = r.playwright /\ browser' = r.browser
         /\ context' = r.context /\ page' = r.page
         /\ live' = r.live
         /\ closeOps' = r.ops
    /\ Return("close", FALSE)          \* except Exception: print(...)
    /\ calls' = calls + 1
    /\ NoSetup
    /\ UNCHANGED << data, config, login, stealth, sc, submissions >>

Caller == Enter \/ GetPage \/ ScrapeProducts \/ ScrapeCategories \/ Close

Operator == GetPagePrompt \/ CheckPrompt \/ LoginPrompt1 \/ LoginPrompt2

Program ==
    \/ GetPageRun
    \/ GetPageReturn
    \/ SPGot
    \/ AttemptLogin
    \/ Poll
    \/ SPChecked
    \/ SPRegot
    \/ CatGot

Next == Caller \/ Operator \/ Program

\* ---------------------------------------------------------- _scroll_page
\* The lazy-load scroll, one loop iteration per step, on its own: the caller
\* opens the session (or not) and runs _scroll_page; the page reports any
\* height in 1..MaxHeight at every measurement.
Heights == 1..MaxHeight

\* The cap of the scroll loop tested with > instead of >=.
ScrollLimitOffByOne(count) == count > ScrollCap

\* if self._scroll_count >= 3: break
ScrollLimitReached(count) == count >= ScrollCap

\* The comparison of the two heights left out: the loop never sees the page
\* settle.
SameHeightIgnored(new_height, last_height) == FALSE

\* if new_height == last_height: break
SameHeight(new_height, last_height) == new_height = last_height

\* _scroll_page up to the while loop: returns at once without a page;
\* otherwise resets the counter and measures the first height.
ScrollStart ==
    /\ AtCaller
    /\ IF page = "none"
       THEN sc' = [NoSc EXCEPT !.pc = "done"]
       ELSE \E h \in Heights, fail \in FailChoices :
              sc' = IF fail \/ page # "live"       \* except Exception: pass
                    THEN [NoSc EXCEPT !.pc = "done"]
                    ELSE [pc |-> "loop", count |-> 0, last |-> h, iters |-> 0]
    /\ UNCHANGED << data, config, session, url, login, pc, op, locals, calls,
                    lastOp, raised, closeLog, setupStarts, setupKind, submissions >>

\* One iteration of the while loop: scroll to the bottom, wait, measure.
ScrollStep ==
    /\ sc.pc = "loop"
    /\ \E h \in Heights, fail \in FailChoices :
         LET n == sc.iters + 1 IN
         sc' = IF fail THEN [sc EXCEPT !.pc = "done", !.iters = n]
               ELSE IF SameHeight(h, sc.last)
               THEN [sc EXCEPT !.pc = "done", !.iters = n]
               ELSE IF ScrollLimitReached(sc.count + 1)
               THEN [sc EXCEPT !.pc = "done", !.iters = n, !.last = h,
                               !.count = @ + 1]
               ELSE [sc EXCEPT !.iters = n, !.last = h, !.count = @ + 1]
    /\ UNCHANGED << data, config, session, url, login, pc, op, locals, calls,
                    lastOp, raised, closeLog, setupStarts, setupKind, submissions >>

ScrollNext == Enter \/ Close \/ ScrollStart \/ ScrollStep

ScrollInit == Init /\ site = "ebay" /\ faults # "nav"

ScrollSpec == ScrollInit /\ [][ScrollNext]_vars

\* ------------------------------------------------------ whole program
\* The runs explored: the eBay scraper on a browser layer in which anything
\* can fail, the Shopee scraper on one that works.
MainInit == Init /\ faults = (IF site = "ebay" THEN "all" ELSE "none")

Spec == MainInit /\ [][Next]_vars

\* The calls that fetch pages on a Shopee scraper, with a navigation that can
\* fail or time out.  The thread takes its own steps whenever it can; nothing
\* makes the operator answer a prompt, and nothing makes the caller issue
\* another call.
FlowInit == Init /\ site = "shopee" /\ faults = "nav"

FlowProgram ==
    GetPageRun \/ GetPageReturn \/ SPGot \/ AttemptLogin \/ Poll
    \/ SPChecked \/ SPRegot

FlowNext == GetPage \/ ScrapeProducts \/ Operator \/ FlowProgram

FlowSpec == FlowInit /\ [][FlowNext]_vars /\ WF_vars(FlowProgram)

\* ------------------------------------------------------------ extraction
\* scrape_products seen from its result list: one step per search term.  A
\* page is represented by what the strategies find in it; at most one record
\* per page is followed.
Sites == {"ebay", "walmart", "shopee"}

\* What one search term meets.
\*   acq         get_page returned a document ("soup") or None ("none"), or
\*               the document's title names a captcha (tested by Shopee)
\*   chk         _check_and_login_if_needed returned True
\*   structured  the embedded JSON holds no product ("zero") or a named one
\*   card        the selector chain finds no card, a card with a name, or a
\*               card from which no name can be extracted
\*   detail      the name the detail page gives: none (no detail page, or no
\*               title element), a text, or an empty text
\*   proxy       the r.jina.ai text holds no product link, a link with a
\*               label, or a link whose label is blank
\*   interrupt   an exception that is not caught inside the loop, or a
\*               KeyboardInterrupt, is raised while the term is processed
TermInputs ==
    { x \in [acq : {"soup", "none", "captcha_title"}, chk : BOOLEAN,
             structured : {"zero", "ok"}, card : {"nocard", "ok", "empty"},
             detail : {"none", "ok", "empty"},
             proxy : {"zero", "ok", "blank"}, interrupt : BOOLEAN] :
        /\ site # "shopee" => x.chk /\ x.acq # "captcha_title"
        /\ site # "walmart" => x.proxy = "zero"
        /\ site = "ebay" => x.structured = "zero"
        /\ x.card # "ok" => x.detail = "none"
        /\ x.interrupt => (x.acq = "soup" /\ x.chk /\ x.structured = "zero"
                           /\ x.card = "nocard" /\ x.proxy = "zero") }

Attempt(strategy, recs) == [s |-> strategy, n |-> Len(recs)]

\* info.update(detail_info): the name of the detail page replaces the name
\* of the card.
Merged(x) == IF x.detail = "none" THEN x.card ELSE x.detail

\* The cards loop: a card is kept when a name was extracted from it
\* (if info.get('name')), and then merged with its detail page.
DomRecords(x) ==
    IF x.card = "ok" THEN << [name |-> Merged(x), source |-> "dom"] >>
    ELSE << >>

\* _extract_next_data / _extract_products_from_json: only named products.
StructuredRecords(x) ==
    IF x.structured = "ok"
    THEN << [name |-> "ok", source |-> "structured"] >>
    ELSE << >>

\* _parse_proxy_products: name = match.group('name').strip(), kept as it is.
ProxyRecords(x) ==
    CASE x.proxy = "ok" -> << [name |-> "ok", source |-> "proxy"] >>
      [] x.proxy = "blank" -> << [name |-> "empty", source |-> "proxy"] >>
      [] OTHER -> << >>

\* The loop body of each scraper from the document on: the strategies it
\* attempts, in order, with the number of records each gave, and the
\* records it appends to results.
EbayExtract(x) ==
    [tried |-> << Attempt("dom", DomRecords(x)) >>, recs |-> DomRecords(x)]

\* A Walmart loop body that goes from the embedded JSON straight to the
\* render proxy.
WalmartExtractNoDom(x) ==
    IF x.acq = "soup" /\ StructuredRecords(x) # << >>
    THEN [tried |-> << Attempt("structured", StructuredRecords(x)) >>,
          recs |-> StructuredRecords(x)]
    ELSE IF x.acq # "soup"
    THEN [tried |-> << Attempt("proxy", ProxyRecords(x)) >>,
          recs |-> ProxyRecords(x)]
    ELSE [tried |-> << Attempt("structured", << >>),
                       Attempt("proxy", ProxyRecords(x)) >>,
          recs |-> ProxyRecords(x)]

WalmartExtract(x) ==
    IF x.acq = "soup" /\ StructuredRecords(x) # << >>
    THEN [tried |-> << Attempt("structured", StructuredRecords(x)) >>,
          recs |-> StructuredRecords(x)]
    ELSE IF x.acq # "soup"
    THEN [tried |-> << Attempt("proxy", ProxyRecords(x)) >>,
          recs |-> ProxyRecords(x)]
    ELSE IF x.card = "nocard"
    THEN [tried |-> << Attempt("structured", << >>), Attempt("dom", << >>),
                       Attempt("proxy", ProxyRecords(x)) >>,
          recs |-> ProxyRecords(x)]
    ELSE [tried |-> << Attempt("structured", << >>),
                       Attempt("dom", DomRecords(x)) >>,
          recs |-> DomRecords(x)]

\* A Shopee loop body that reads the embedded JSON before the selectors.
ShopeeExtractStructuredFirst(x) ==
    IF StructuredRecords(x) # << >>
    THEN [tried |-> << Attempt("structured", StructuredRecords(x)) >>,
          recs |-> StructuredRecords(x)]
    ELSE [tried |-> << Attempt("structured", << >>),
                       Attempt("dom", DomRecords(x)) >>,
          recs |-> DomRecords(x)]

ShopeeExtract(x) ==
    IF x.card = "nocard"
    THEN [tried |-> << Attempt("dom", << >>),
                       Attempt("structured", StructuredRecords(x)) >>,
          recs |-> StructuredRecords(x)]
    ELSE [tried |-> << Attempt("dom", DomRecords(x)) >>,
          recs |-> DomRecords(x)]

\* The strategies each scraper has, in the order of its loop body.
SiteOrder ==
    CASE site = "walmart" -> << "structured", "dom", "proxy" >>
      [] site = "shopee" -> << "dom", "structured" >>
      [] OTHER -> << "dom" >>

\* tried follows order: each strategy of tried stands in order, and later
\* in order than the one tried before it.
Follows(tried, order) ==
    \E pos \in [1..Len(tried) -> 1..Len(order)] :
        /\ \A k \in 1..Len(tried) : order[pos[k]] = tried[k].s
        /\ \A k \in 1..(Len(tried) - 1) : pos[k] < pos[k + 1]

\* Every strategy but the last one tried gave no record.
EarlierGaveNothing(tried) ==
    \A k \in 1..(Len(tried) - 1) : tried[k].n = 0

NoExtract == [tried |-> << >>, recs |-> << >>]

\* The term is given up before any strategy runs (continue).
Skipped(x) ==
    CASE site = "walmart" -> FALSE
      [] site = "ebay" -> x.acq # "soup"
      [] OTHER -> x.acq # "soup" \/ ~x.chk

Extract(x) ==
    IF Skipped(x) THEN NoExtract
    ELSE CASE site = "ebay" -> EbayExtract(x)
           [] site = "walmart" -> WalmartExtract(x)
           [] OTHER -> ShopeeExtract(x)

\* A loop that is left at the first skipped term (break for continue).
RemainingBreakOnSkip(t, skipped) == IF skipped THEN 0 ELSE t - 1

\* The terms left once a term is done: the for loop goes on to the next
\* term whether the term was skipped or not.
Remaining(t, skipped) == t - 1

\* The caller (run_cli.main) calls scrape_products(search_terms).
XScrapeProducts ==
    /\ AtCaller /\ calls < MaxCalls
    /\ \E n \in 1..MaxTerms : terms' = n
    /\ pc' = "x_term"
    /\ op' = "scrape_products"
    /\ results' = << >> /\ terms_log' = << >>
    /\ delivered' = NotDelivered
    /\ calls' = calls + 1
    /\ raised' = FALSE
    /\ UNCHANGED << workers, config, session, url, login, gpRet, waited, gp, chk, sc,
                    lastOp, closeLog, setupStarts, setupKind, fatal, submissions, polls,
                    marks, cookies, monitor >>

\* One iteration of "for term in search_terms".  An exception leaves through
\* the finally clause and reaches main, which stores an empty product list;
\* after the last term the list is returned and main stores it.
XTerm ==
    /\ pc = "x_term"
    /\ \E x \in TermInputs :
         IF x.interrupt
         THEN /\ pc' = "idle" /\ terms' = 0
              /\ raised' = TRUE
              /\ delivered' = [done |-> TRUE, list |-> << >>]
              /\ UNCHANGED << results, terms_log >>
         ELSE LET e == Extract(x)
                  i == Len(terms_log) + 1
                  left == Remaining(terms, Skipped(x))
                  out == results \o [k \in 1..Len(e.recs) |->
                           [term |-> i, name |-> e.recs[k].name,
                            source |-> e.recs[k].source]]
              IN  /\ results' = out
                  /\ terms_log' = Append(terms_log,
                        [acquired |-> x.acq = "soup", skipped |-> Skipped(x),
                         tried |-> e.tried, added |-> Len(e.recs)])
                  /\ terms' = left
                  /\ pc' = IF left = 0 THEN "idle" ELSE "x_term"
                  /\ delivered' = IF left = 0
                                  THEN [done |-> TRUE, list |-> out]
                                  ELSE delivered
                  /\ raised' = FALSE
    /\ op' = IF pc' = "idle" THEN "none" ELSE op
    /\ lastOp' = IF pc' = "idle" THEN "call" ELSE lastOp
    /\ UNCHANGED << workers, config, session, url, login, gpRet, waited, gp, chk, sc,
                    calls, closeLog, setupStarts, setupKind, fatal, submissions, polls,
                    marks, cookies, monitor >>

ExtractInit ==
    /\ site \in Sites
    /\ headless = TRUE
    /\ pause_on_verification = FALSE
    /\ has_credentials = FALSE
    /\ faults = "none"
    /\ Constructed
    /\ Defaults

ExtractNext == XScrapeProducts \/ XTerm

ExtractSpec == ExtractInit /\ [][ExtractNext]_vars

\* --------------------------------------------------------------- cookies
\* The cookie block of _setup_browser and save_cookies.  An entry of the file
\* is an object; name stands for its place in the file, domain tells whether
\* the key is there and whether its value is empty, sameSite is the value of
\* the key or "missing".
MaxCookies == 2

CookiePaths == {"data/cookies.json", "data/shopee_cookies.json"}

Domains == {"has", "empty", "missing"}

SameSiteValues ==
    {"Strict", "Lax", "None", "strict", "STRICT", "lax", "LAX", "none",
     "NONE", "NoNe", "bogus", "missing"}

CookieFiles ==
    UNION { { f \in [1..n -> [name : 1..n, domain : Domains,
                              sameSite : SameSiteValues]] :
                \A k \in 1..n : f[k].name = k } : n \in 0..MaxCookies }

\* The value fixed_cookie['sameSite'] is given.
FixSameSite(v) ==
    IF v = "missing" THEN "Lax"
    ELSE IF v \in {"Strict", "Lax", "None"} THEN v
    ELSE IF v \in {"strict", "STRICT"} THEN "Strict"
    ELSE IF v \in {"lax", "LAX"} THEN "Lax"
    ELSE IF v \in {"none", "NONE"} THEN "None"
    ELSE "Lax"

\* A filter that asks for the key only.
KeepCookieIfKey(c) == c.domain # "missing"

\* not ('domain' not in fixed_cookie or not fixed_cookie['domain'])
KeepCookie(c) == c.domain = "has"

RECURSIVE FixCookies(_)
FixCookies(cs) ==
    IF cs = << >> THEN << >>
    ELSE LET fixed == [Head(cs) EXCEPT !.sameSite = FixSameSite(@)]
         IN  (IF KeepCookie(fixed) THEN << fixed >> ELSE << >>)
             \o FixCookies(Tail(cs))

\* if self.cookies_file and Path(self.cookies_file).exists()
LoadCookies ==
    IF cookies_file # "none" /\ cookie_file.exists
    THEN FixCookies(cookie_file.entries)
    ELSE << >>

\* The default of save_cookies' filepath; no caller passes another.
DefaultCookiePath == "data/cookies.json"

\* _setup_browser on a scraper without a session, nothing raising: the
\* four handles are created and the cookie file is loaded into the context.
CSetupBrowser ==
    /\ browser = "none"                     \* if self.browser is None:
    /\ playwright' = "live" /\ browser' = "live"
    /\ context' = "live" /\ page' = "live"
    /\ loaded' = LoadCookies
    /\ UNCHANGED << workers, config, control, stealth,
                    live, extraction, cookies_file, cookie_file, saved_to,
                    monitor >>

\* self.save_cookies(), as the finally clauses and the login flow call it.
CSaveCookies ==
    /\ saved_to' = IF context = "none" THEN saved_to ELSE DefaultCookiePath
    /\ UNCHANGED << workers, config, control, session, extraction, cookies_file,
                    cookie_file, loaded, monitor >>

\* close(), nothing raising.
CClose ==
    /\ playwright' = "none" /\ browser' = "none"
    /\ context' = "none" /\ page' = "none"
    /\ UNCHANGED << config, control, stealth, live, data >>

CookieInit ==
    /\ site \in {"ebay", "shopee"}
    /\ headless = TRUE
    /\ pause_on_verification = FALSE
    /\ has_credentials = FALSE
    /\ faults = "none"
    /\ Constructed
    /\ cookies_file \in {"none"} \cup CookiePaths
    /\ cookie_file \in [exists : BOOLEAN, entries : CookieFiles]
    /\ cookie_file.exists = FALSE => cookie_file.entries = << >>
    /\ cookies_file = "none" => ~cookie_file.exists
    /\ enable_request_monitoring = TRUE

CookieNext == CSetupBrowser \/ CSaveCookies \/ CClose

CookieSpec == CookieInit /\ [][CookieNext]_vars

\* ------------------------------------------------------------ request log
\* The request monitor over one run of main for a site: scrape_products,
\* scrape_categories, close.  The two lists are counted.
MaxEntries == 2

\* save_request_logs(): nothing is written while request_logs is empty.
SaveRequestLogs ==
    IF request_logs = 0 THEN log_file
    ELSE [written |-> TRUE, requests |-> request_logs,
          responses |-> response_logs]

\* The finally clause of scrape_products.
ProductsFinally ==
    IF enable_request_monitoring THEN SaveRequestLogs ELSE log_file

\* main calls scrape_products; its first get_page sets the session up, and
\* with monitoring enabled registers on_request and on_response.
LScrapeProducts ==
    /\ pc = "idle" /\ calls = 0
    /\ pc' = "l_products" /\ calls' = 1
    /\ playwright' = "live" /\ browser' = "live"
    /\ context' = "live" /\ page' = "live"
    /\ loaded' = LoadCookies
    /\ UNCHANGED << workers, config, stealth, live, op, sc, url,
                    login, locals, lastOp, raised, closeLog, setupStarts, setupKind,
                    submissions, extraction, cookies_file, cookie_file,
                    saved_to, monitor >>

\* The page sends a request: on_request appends an entry, unless reading
\* the request (its post_data) raises before the append.
LRequest ==
    /\ pc \in {"l_products", "l_categories"}
    /\ enable_request_monitoring
    /\ request_logs < MaxEntries
    /\ \E fails \in BOOLEAN :
         request_logs' = IF fails THEN request_logs ELSE request_logs + 1
    /\ UNCHANGED << workers, config, control, session, extraction, cookies,
                    enable_request_monitoring, response_logs, log_file >>

\* The page receives a response: on_response appends an entry.
LResponse ==
    /\ pc \in {"l_products", "l_categories"}
    /\ enable_request_monitoring
    /\ response_logs < MaxEntries
    /\ response_logs' = response_logs + 1
    /\ UNCHANGED << workers, config, control, session, extraction, cookies,
                    enable_request_monitoring, request_logs, log_file >>

\* scrape_products leaves through its finally clause.
LProductsEnd ==
    /\ pc = "l_products"
    /\ pc' = "l_between"
    /\ saved_to' = DefaultCookiePath
    /\ log_file' = ProductsFinally
    /\ UNCHANGED << workers, config, session, op, sc, url, login, locals, calls,
                    lastOp, raised, closeLog, setupStarts, setupKind, submissions,
                    extraction, cookies_file, cookie_file, loaded,
                    enable_request_monitoring, request_logs,
                    response_logs >>

\* main calls scrape_categories.
LScrapeCategories ==
    /\ pc = "l_between"
    /\ pc' = "l_categories"
    /\ UNCHANGED << config, session, op, sc, url, login, locals, calls,
                    lastOp, raised, closeLog, setupStarts, setupKind, submissions,
                    data >>

\* scrape_categories leaves through its finally clause: save_cookies only.
LCategoriesEnd ==
    /\ pc = "l_categories"
    /\ pc' = "l_after"
    /\ saved_to' = DefaultCookiePath
    /\ UNCHANGED << workers, config, session, op, sc, url, login, locals, calls,
                    lastOp, raised, closeLog, setupStarts, setupKind, submissions,
                    extraction, cookies_file, cookie_file, loaded,
                    monitor >>

\* main closes the scraper: close() releases the handles and writes nothing.
LClose ==
    /\ pc = "l_after"
    /\ pc' = "l_closed"
    /\ playwright' = "none" /\ browser' = "none"
    /\ context' = "none" /\ page' = "none"
    /\ UNCHANGED << config, stealth, live, op, sc, url,
                    login, locals, calls, lastOp, raised, closeLog,
                    setupStarts, setupKind, submissions, data >>

LogInit ==
    /\ site \in Sites
    /\ headless \in BOOLEAN
    /\ pause_on_verification = FALSE
    /\ has_credentials = FALSE
    /\ faults = "none"
    /\ Constructed
    /\ cookies_file = "none"
    /\ cookie_file = [exists |-> FALSE, entries |-> << >>]
    /\ enable_request_monitoring \in BOOLEAN

LogNext ==
    \/ LScrapeProducts \/ LRequest \/ LResponse \/ LProductsEnd
    \/ LScrapeCategories \/ LCategoriesEnd \/ LClose

LogSpec == LogInit /\ [][LogNext]_vars

\* ------------------------------------------------------ parallel sessions
\* Sessions run side by side as separate processes, each running main for
\* one site.  A save opens its file with mode 'w', dumps and closes; the two
\* ends of a write are separate steps, and nothing in the code orders the
\* writes of different processes.
DefaultLogPath == "data/request_logs.json"

\* The step of worker w that changes its record to r.
WorkerStep(w, r) ==
    /\ workers' = [workers EXCEPT ![w] = r]
    /\ UNCHANGED << config, control, session, extraction, cookies, monitor >>

\* save_cookies(): open(cookie_file, 'w') on the default path.
OpenCookieFile(wk, next) ==
    [wk EXCEPT !.pc = next, !.writing = DefaultCookiePath,
               !.cookie_writes = @ + 1]

\* main calls scrape_products of the scraper built for its site.
WScrapeProducts ==
    \E w \in Workers, st \in Sites :
        /\ workers[w].pc = "start"
        /\ WorkerStep(w, [workers[w] EXCEPT !.pc = "products",
                                            !.site = st])

\* _login_to_shopee has left the login pages: self.save_cookies().  Once
\* logged in the session does not log in again.
WLoginCheckpoint ==
    \E w \in Workers :
        /\ workers[w].pc = "products"
        /\ workers[w].site = "shopee"
        /\ ~workers[w].logged_in
        /\ WorkerStep(w, [OpenCookieFile(workers[w], "checkpoint")
                            EXCEPT !.logged_in = TRUE])

\* The finally clause of scrape_products: self.save_cookies(), which
\* returns at once without a context.
WProductsFinally ==
    \E w \in Workers, hasContext \in BOOLEAN :
        /\ workers[w].pc = "products"
        /\ WorkerStep(w, IF hasContext
                         THEN OpenCookieFile(workers[w], "fin_cookies")
                         ELSE [workers[w] EXCEPT !.pc = "fin_logs"])

\* ... then save_request_logs() if monitoring is enabled; it returns at once
\* when no request was recorded.
WSaveRequestLogs ==
    \E w \in Workers, recorded \in BOOLEAN :
        /\ workers[w].pc = "fin_logs"
        /\ WorkerStep(w, IF enable_request_monitoring /\ recorded
                         THEN [workers[w] EXCEPT !.pc = "fin_logs_w",
                                 !.writing = DefaultLogPath,
                                 !.log_writes = @ + 1]
                         ELSE [workers[w] EXCEPT !.pc = "between"])

\* main calls scrape_categories, whose finally clause saves the cookies.
WCategoriesFinally ==
    \E w \in Workers, hasContext \in BOOLEAN :
        /\ workers[w].pc = "between"
        /\ WorkerStep(w, IF hasContext
                         THEN OpenCookieFile(workers[w], "cat_cookies")
                         ELSE [workers[w] EXCEPT !.pc = "after"])

\* json.dump is done and the with block closes the file.
AfterWrite(at) ==
    CASE at = "checkpoint" -> "products"
      [] at = "fin_cookies" -> "fin_logs"
      [] at = "fin_logs_w" -> "between"
      [] at = "cat_cookies" -> "after"

WWritten ==
    \E w \in Workers :
        /\ workers[w].writing # "none"
        /\ WorkerStep(w, [workers[w] EXCEPT !.writing = "none",
                                            !.pc = AfterWrite(@)])

\* main closes the scraper.
WClose ==
    \E w \in Workers :
        /\ workers[w].pc = "after"
        /\ WorkerStep(w, [workers[w] EXCEPT !.pc = "closed"])

ParInit ==
    /\ site = "ebay"
    /\ headless = TRUE
    /\ pause_on_verification = FALSE
    /\ has_credentials = FALSE
    /\ faults = "none"
    /\ Constructed
    /\ cookies_file = "none"
    /\ cookie_file = [exists |-> FALSE, entries |-> << >>]
    /\ enable_request_monitoring \in BOOLEAN

ParNext ==
    \/ WScrapeProducts \/ WLoginCheckpoint \/ WProductsFinally
    \/ WSaveRequestLogs \/ WCategoriesFinally \/ WWritten \/ WClose

ParSpec == ParInit /\ [][ParNext]_vars

\* ================================================================ claims

\* C1: on a Shopee scraper _login_attempts never exceeds 3 and
\* _login_to_shopee runs at most 3 times; a document fetched on the login
\* URL while logged out always reaches _attempt_login, and once 3 attempts
\* were made _attempt_login returns failure without submitting the
\* credentials and without touching the login state.
C1_LoginAttemptsBounded ==
    [][ /\ login_attempts' <= MaxLoginAttempts
        /\ submissions' <= MaxLoginAttempts
        /\ (pc = "sp_got" /\ site = "shopee" /\ gp.result = "soup"
              /\ ~is_logged_in /\ page = "live" /\ HasLogin(url))
           => pc' = "attempt"
        /\ (pc = "attempt" /\ login_attempts >= MaxLoginAttempts)
           => /\ chk' = FALSE
              /\ pc' = "sp_checked"
              /\ submissions' = submissions
              /\ UNCHANGED login ]_vars

\* C1, its case: three submissions were made and a further login wall was
\* turned down.
C1_RefusedAtCap ==
    /\ "refused" \in marks
    /\ has_credentials
    /\ login_attempts = MaxLoginAttempts
    /\ submissions = MaxLoginAttempts
    /\ pc = "sp_checked" /\ ~chk

\* C2: _is_logged_in becomes True only in a step that observes a URL which
\* has left both '/buyer/login' and '/verify'.
C2_AuthenticatedOnlyOffLoginAndVerify ==
    [][ (~is_logged_in /\ is_logged_in')
        => (~HasLogin(url') /\ ~HasVerify(url')) ]_vars

\* C3: when the run has ended with close(), no driver, browser, context or
\* page of the session is still running.
C3_AllReleasedAfterClose ==
    (pc = "idle" /\ lastOp = "close") => \A k \in Kinds : live[k] = 0

\* C4: every close() releases in the order page, context, browser, driver,
\* only handles that were created, raises nothing, and performs no release
\* operation at all when the call before it was a close() too.
C4_CloseOrderedAndIdempotent ==
    [][ (AtCaller /\ calls' = calls + 1 /\ lastOp' = "close")
        => LET rank(k) == CHOOSE i \in 1..Len(CloseOrder) : CloseOrder[i] = k
           IN  /\ \A i, j \in 1..Len(closeOps') :
                     i < j => rank(closeOps'[i]) < rank(closeOps'[j])
               /\ \A i \in 1..Len(closeOps') : HandleOf(closeOps'[i]) # "none"
               /\ ~raised'
               /\ lastOp = "close" => closeOps' = << >> ]_vars

\* C5: at most one driver, one browser, one context and one page are
\* running at any time.
C5_AtMostOneOfEach == \A k \in Kinds : live[k] <= 1

\* C6: once the start of the engine has failed after the remediation, the
\* running call fetches no further page and makes no further start attempt.
C6_FatalStartAborts ==
    [][ fatal => (pc' # "gp_run" /\ setupStarts' = 0) ]_vars

\* C7: whichever of page.goto, the wait for the selector, the DOM-ready wait
\* and the network-idle wait raise or time out, get_page goes on to read the
\* page content, and when no other step raised it returns failure only for
\* a content shorter than 100 or an unhandled verification page.
C7_NavigationErrorsNotFatal ==
    pc \in {"gp_prompt", "gp_ret", "sp_got", "sp_regot", "cat_got"}
    => /\ (gp.errs # {} /\ ~gp.exc) => gp.content # "notcaptured"
       /\ (gp.result = "none" /\ ~gp.exc)
          => (gp.content = "short" \/ gp.verif = "unhandled")

\* C7, its case: all four navigation steps failed and get_page returned the
\* document.
C7_AllNavStepsFailedStillSoup ==
    /\ pc = "sp_got"
    /\ gp.errs = NavSteps
    /\ gp.content = "ok" /\ gp.result = "soup"

\* C8 as stated: every call, once started, returns, whatever the operator
\* does.
C8_EveryCallReturns == (pc # "idle") ~> (pc = "idle")

\* C8, amended: every call, once started, returns or comes to wait for the
\* operator at a manual-verification prompt, and such a prompt is reached
\* only with the pause flag set and a visible browser.
C8_ReturnsOrAwaitsOperator ==
    LET AtPrompt == pc \in {"gp_prompt", "chk_prompt", "login_prompt1",
                            "login_prompt2"}
    IN  /\ (pc # "idle") ~> (pc = "idle" \/ AtPrompt)
        /\ [](AtPrompt => PromptBlocks)

\* C8, its case: the poll window has run out and the login flow waits for
\* the operator.
C8_AwaitingOperatorAfterPolls ==
    /\ pc = "login_prompt2"
    /\ waited = MaxWait
    /\ PromptBlocks

\* C9: one call of _scroll_page makes at most 3 iterations of its loop.
C9_ScrollAtMostThree == sc.iters <= 3

\* C9, its case: the height differed at every measurement and the loop
\* stopped after the third iteration.
C9_NeverStabilised ==
    /\ sc.pc = "done"
    /\ sc.count = 3
    /\ sc.iters = 3

\* C10 as stated: a get_page of a Shopee scraper without the pause flag that
\* ends on a '/verify' URL runs the poll window, and after it the running
\* call makes no login attempt.
C10_VerifyWallPollsThenNoLogin ==
    [][ /\ (pc = "gp_run" /\ site = "shopee" /\ ~pause_on_verification
              /\ gp'.content = "ok" /\ HasVerify(url'))
           => polls' > 0
        /\ "verify_wall" \in marks
           => (login_attempts' = login_attempts
               /\ submissions' = submissions) ]_vars

\* C10, amended: such a get_page returns failure at once, with no poll and
\* no change of the login state, and scrape_products skips the term without
\* a login attempt.
C10_VerifyWallSkipsTerm ==
    [][ /\ (pc = "gp_run" /\ site = "shopee" /\ ~pause_on_verification
              /\ gp'.content = "ok" /\ HasVerify(url'))
           => /\ gp'.result = "none" /\ gp'.verif = "unhandled"
              /\ pc' = RetPc
              /\ polls' = polls /\ waited' = waited
              /\ submissions' = submissions
              /\ UNCHANGED login
        /\ (pc = "sp_got" /\ gp.result = "none")
           => /\ pc' \in {"gp_run", "idle"}
              /\ submissions' = submissions
              /\ UNCHANGED login ]_vars

\* C10, its case: the search page of a term ended on '/verify' with the
\* pause flag off and get_page returned failure.
C10_SkippedOnVerifyWall ==
    /\ "verify_wall" \in marks
    /\ ~pause_on_verification
    /\ pc = "sp_got"
    /\ HasVerify(url)
    /\ gp.result = "none" /\ gp.verif = "unhandled"

\* C11: when the acquisition or the login check of a term fails,
\* scrape_products gives up that term only: the records gathered so far are
\* kept, the loop goes on with the next term if there is one, and after the
\* last term the call returns the list with every record gathered.
C11_FailedTermSkippedOnly ==
    [][ /\ (/\ pc = "x_term"
            /\ Len(terms_log') = Len(terms_log) + 1
            /\ terms_log'[Len(terms_log')].skipped)
           => /\ results' = results
              /\ terms > 1 => /\ pc' = "x_term" /\ terms' = terms - 1
                              /\ ~delivered'.done
              /\ terms = 1 => /\ delivered' = [done |-> TRUE, list |-> results]
                              /\ ~raised'
        /\ (delivered'.done /\ ~raised') => delivered'.list = results' ]_vars

\* C11, its case: the first term gave a record, the second was skipped, and
\* the call returned the record of the first.
C11_ReturnedAfterSkippedTerm ==
    /\ delivered.done /\ ~raised
    /\ Len(terms_log) = 2
    /\ terms_log[1].added > 0
    /\ terms_log[2].skipped
    /\ Len(delivered.list) > 0

\* C12: the records gathered before an exception or an interrupt that ends
\* scrape_products while a later term is processed are still handed over:
\* whenever the call has ended, what its caller holds (and main stores as
\* 'products') is the list of the records gathered so far.
C12_PartialResultsDelivered ==
    delivered.done => delivered.list = results

C15_EveryRecordNamed ==
    \A k \in 1..Len(results) : results[k].name # "empty"

\* C16: the cookies handed to the browser context when the snapshot is
\* loaded are exactly the entries of the file that have a domain, in file
\* order: no entry without a domain is handed over and none with a domain is
\* left out.
C16_LoadedAreEntriesWithDomain ==
    (context = "live" /\ cookies_file # "none" /\ cookie_file.exists)
    => LET kept == SelectSeq(cookie_file.entries,
                             LAMBDA c : c.domain = "has")
       IN  /\ Len(loaded) = Len(kept)
           /\ \A k \in 1..Len(loaded) :
                /\ loaded[k].name = kept[k].name
                /\ loaded[k].domain = "has"

\* C16, its case: a file with one entry without a domain followed by a
\* valid one was loaded, and one cookie was handed over.
C16_OneOfTwoLoaded ==
    /\ context = "live"
    /\ cookies_file # "none" /\ cookie_file.exists
    /\ Len(cookie_file.entries) = 2
    /\ cookie_file.entries[1].domain = "missing"
    /\ cookie_file.entries[2].domain = "has"
    /\ Len(loaded) = 1 /\ loaded[1].name = 2

\* C17: every cookie handed to the browser context has sameSite Strict, Lax
\* or None: a canonical value is kept, every spelling of strict, lax or none
\* in lower, upper or mixed case becomes its canonical value, and any other
\* value, or none at all, becomes Lax.
C17_SameSiteCanonical ==
    (context = "live" /\ cookies_file # "none" /\ cookie_file.exists)
    => \A k \in 1..Len(loaded) :
         LET given == cookie_file.entries[loaded[k].name].sameSite
             folded == CASE given \in {"Strict", "strict", "STRICT"}
                              -> "Strict"
                         [] given \in {"Lax", "lax", "LAX"} -> "Lax"
                         [] given \in {"None", "none", "NONE", "NoNe"}
                              -> "None"
                         [] OTHER -> "Lax"
         IN  /\ loaded[k].sameSite \in {"Strict", "Lax", "None"}
             /\ loaded[k].sameSite = folded

\* C18: cookies are written back to the snapshot file they were loaded
\* from: with a cookie file configured, every save writes to that file.
C18_SavedToConfiguredFile ==
    (cookies_file # "none" /\ saved_to # "none") => saved_to = cookies_file

\* C19: with request monitoring enabled, once the session has ended the log
\* file holds every request entry and every response entry recorded during
\* the session, those recorded after scrape_products returned and responses
\* recorded without any request entry included.
C19_LogFileCompleteAtEnd ==
    (pc = "l_closed" /\ enable_request_monitoring)
    => /\ log_file.requests = request_logs
       /\ log_file.responses = response_logs

\* C20: a failure of the stealth injection is only logged and never changes
\* whether get_page returns a document: a get_page call in which the
\* injection failed returns no document only for a cause of its own, a
\* content that cannot be read or is too short, or a verification page that
\* was not handled.
C20_StealthFailureOnlyLogged ==
    [][ (pc = "gp_run" /\ "stealth_failed" \in marks'
         /\ "stealth_failed" \notin marks /\ gp'.result = "none")
        => (gp'.content \in {"short", "raise"}
            \/ gp'.verif = "unhandled") ]_vars

\* C21: with sessions running side by side as separate processes, no two of
\* them are ever writing the same cookie file or the same log file at the
\* same time, and each session writes each of the two files once.
C21_NoConcurrentWritesAndWrittenOnce ==
    /\ \A v, w \in Workers :
         (v # w /\ workers[v].writing # "none")
         => workers[v].writing # workers[w].writing
    /\ \A w \in Workers :
         workers[w].cookie_writes <= 1 /\ workers[w].log_writes <= 1

\* C22: the verification poll loop of _login_to_shopee reads the page URL at
\* most 5 times: it ends with a successful login at the first poll whose URL
\* holds neither '/verify' nor '/buyer/login', with a failed login at the
\* first poll whose URL holds '/buyer/login', and after the fifth poll
\* otherwise.
C22_PollLoopAtMostFive ==
    [][ pc = "login_poll"
        => /\ polls' = polls + 1 /\ polls' <= 5
           /\ (~HasVerify(url') /\ ~HasLogin(url'))
              => pc' = "sp_checked" /\ is_logged_in' /\ chk'
           /\ HasLogin(url')
              => /\ pc' = "sp_checked" /\ ~chk'
                 /\ is_logged_in' = is_logged_in
           /\ (HasVerify(url') /\ ~HasLogin(url'))
              => (pc' = "login_poll" <=> polls' < 5) ]_vars

\* C22, its case: the URL held '/verify' at five polls and the loop ended
\* with the fifth.
C22_FifthPollEndsLoop ==
    /\ polls = 5
    /\ pc # "login_poll"
    /\ HasVerify(url) /\ ~HasLogin(url)
    /\ ~is_logged_in

\* C23: _setup_browser starts the driver at most twice per call: after an
\* event-loop error of the first start it applies the remediation and tries
\* the start once more, whatever the remediation did, and fails fatally if
\* the second start fails; it does not retry after another error.
C23_LoopErrorAlwaysRetriedOnce ==
    [][ /\ setupStarts' <= 2
        /\ setupKind' \in {"retry_ok", "retry_fail", "remedy_fail"}
           => setupStarts' = 2
        /\ setupKind' \in {"ok", "other_fail"} => setupStarts' = 1 ]_vars

\* C23, amended: the start is tried again only when the remediation itself
\* did not raise; a failing remediation and a failing second start both end
\* in the fatal error, which get_page turns into a failure and any other
\* caller receives, and no driver is kept.
C23_RetryOnceAfterRemediation ==
    [][ /\ setupStarts' <= 2
        /\ setupKind' \in {"retry_ok", "retry_fail"} => setupStarts' = 2
        /\ setupKind' \in {"ok", "other_fail", "remedy_fail"}
           => setupStarts' = 1
        /\ setupKind' \in {"retry_fail", "remedy_fail", "other_fail"}
           => /\ playwright' = playwright /\ live' = live
              /\ IF pc = "gp_run"
                 THEN gp'.exc /\ gp'.result = "none"
                 ELSE raised'
        /\ (setupKind' \in {"retry_fail", "remedy_fail"} /\ pc = "gp_run")
           => fatal'
        /\ (setupKind' = "other_fail" /\ pc = "gp_run")
           => fatal' = fatal ]_vars

\* C23, its case: the first start met the event-loop error, the remediation
\* raised, and the call failed after one start.
C23_RemediationFailed ==
    /\ setupKind = "remedy_fail"
    /\ setupStarts = 1
    /\ playwright = "none"

\* C24: the stealth init script is registered on a page before any
\* navigation is issued on it: whatever setups, get_page and scrape_products
\* calls came before, a page on which get_page has navigated has the
\* script registered.
C24_NoNavigationWithoutStealth ==
    (page = "live" /\ gp.content # "notcaptured") => stealth

\* C25: in the Shopee scraper records are extracted only from a document
\* that passed the login and verification check; in particular the
\* document fetched again after a login, from which the cards are extracted
\* as soon as get_page has returned it, was not fetched on a '/buyer/login'
\* or '/verify' URL.
C25_RefetchedDocumentPassedCheck ==
    (site = "shopee" /\ pc = "sp_regot" /\ gp.result = "soup")
    => (~HasLogin(url) /\ ~HasVerify(url))

\* C26: the run waits for the operator's input only with the manual-pause
\* flag on and a visible browser, at every place that asks: the
\* verification handling of get_page, the login check, and the two prompts
\* of the login flow; with the flag off or a headless browser none of them
\* is ever waited at.
C26_PromptOnlyWithPauseAndVisible ==
    pc \in {"gp_prompt", "chk_prompt", "login_prompt1", "login_prompt2"}
    => (pause_on_verification /\ ~headless)

\* C26, its case: the login check found the page on a verification URL and
\* waits for the operator.
C26_LoginCheckAwaitsOperator ==
    /\ pc = "chk_prompt"
    /\ pause_on_verification /\ ~headless
    /\ HasVerify(url) \/ HasTrafficError(url)

\* C27: the login state is left alone by page loads, extraction and saves,
\* and it is reset when a new session is created: a session opened again
\* after close() starts not logged in and with no login attempt made, and
\* nothing else resets the state.
C27_LoginStateResetOnlyByNewSession ==
    [][ /\ (browser = "none" /\ browser' = "live")
           => (~is_logged_in' /\ login_attempts' = 0)
        /\ ~(browser = "none" /\ browser' = "live")
           => /\ is_logged_in => is_logged_in'
              /\ login_attempts' >= login_attempts ]_vars

\* C28 as stated: the scroll loop stops only when the height has been found
\* unchanged twice or when 3 iterations have run, so that, when no browser
\* call raises, a loop that has run fewer than two iterations (and so has
\* made at most one measurement) is never left.
C28_SingleUnchangedDoesNotStop ==
    [][ (faults = "none" /\ sc.pc = "loop" /\ sc'.pc = "done")
        => sc'.iters >= 2 ]_vars

\* C28, amended: when no browser call raises, an iteration of the scroll loop
\* is the last one exactly when its measurement equals the previous one (the
\* first unchanged measurement stops the loop) or when it is the third
\* iteration.
C28_StopsAtFirstUnchangedOrThird ==
    [][ (faults = "none" /\ sc.pc = "loop" /\ sc' # sc)
        => /\ sc'.iters = sc.iters + 1
           /\ sc'.pc = "done" <=> (sc'.last = sc.last \/ sc'.iters = 3) ]_vars

\* The loop was left after one iteration, whose measurement was the first
\* one to find the height unchanged.
C28_StoppedByOneUnchanged ==
    /\ faults = "none"
    /\ sc.pc = "done"
    /\ sc.iters = 1
    /\ sc.count = 0

\* C29: the session handles form a chain in every reachable state: a page
\* that is not None implies a context that is not None, which implies a
\* browser that is not None, which implies a Playwright driver that is not
\* None, whatever _setup_browser, get_page and close calls were made and
\* wherever they failed.
C29_HandleChain ==
    /\ page # "none" => context # "none"
    /\ context # "none" => browser # "none"
    /\ browser # "none" => playwright # "none"

\* close() ran on an open session and its first release step raised after
\* closing the page: the four handles are all kept, the page a closed one.
C29_CloseFailedOnPage ==
    /\ lastOp = "close"
    /\ closeOps = << "page" >>
    /\ page = "closed"
    /\ context = "live" /\ browser = "live" /\ playwright = "live"

\* C30: get_page treats the page it has read as a verification wall exactly
\* when the final URL contains 'captcha', 'robot' or 'verify', whatever the
\* content and whether or not the browser was redirected there; for such a
\* URL it returns a document only if _handle_verification_page returned True
\* and the content read again has at least 100 characters, and None
\* otherwise, so that the base scraper, whose handler returns False, skips
\* every such URL.
C30_WallIffKeywordInUrl ==
    [][ /\ (pc = "gp_run" /\ pc' # "gp_run" /\ gp'.content = "ok")
           => /\ gp'.verif # "no"
                 <=> url' \in {"captcha", "verify", "login_verify"}
              /\ gp'.verif = "no" => gp'.result = "soup"
              /\ gp'.verif = "unhandled" => gp'.result = "none"
              /\ site = "ebay" => gp'.verif \in {"no", "unhandled"}
        /\ (pc = "gp_prompt" /\ pc' # "gp_prompt")
           => /\ gp'.verif \in {"handled", "unhandled"}
              /\ gp'.result = "soup"
                 <=> (gp'.verif = "handled" /\ gp'.content = "ok") ]_vars

\* The eBay scraper has read a full page whose URL has one of the keywords:
\* the page was not handled and get_page returned None.
C30_BaseScraperSkipsWall ==
    /\ site = "ebay"
    /\ url = "captcha"
    /\ gp.content = "ok"
    /\ gp.verif = "unhandled"
    /\ gp.result = "none"
====
